---------------------------- MODULE Spec2Model ----------------------------
(***************************************************************************)
(* Verification model of the NEAR trading dashboard ingestion pipeline:    *)
(*   - the rate-limited CoinGecko client   (src/lib/coingecko.ts)          *)
(*   - the snapshot builders               (src/lib/coingecko.ts)          *)
(*   - the cron ingestion handler          (app/api/cron/fetch-data)       *)
(***************************************************************************)
EXTENDS Integers, Sequences, FiniteSets, TLC

VARIABLES
  \* ---- rate-limited client (module-level state of coingecko.ts) ----
  callCount,         \* let callCount
  elapsed,           \* Date.now() - lastResetTime, saturated at Expired
  pc,                \* per in-flight fetchFromCoinGecko call: where it is suspended
  timer,             \* per call: ms left on its pending setTimeout
  issuedSinceReset,  \* provider requests issued since callCount was last reset (observer)
  observing,         \* observer: whether rolling windows are being observed
  winAge,            \* observer: age of the observed rolling window, -1 when none
  winCount,          \* observer: provider requests issued inside the observed window
  \* ---- environment of the ingestion handler ----
  now,               \* the wall clock read by new Date()
  provider,          \* what the provider currently serves on its three endpoints
  cronSecret,        \* process.env.CRON_SECRET
  \* ---- cron ingestion handler and the three MongoDB collections ----
  run,               \* per handler invocation: its position and its locals
  started,           \* number of invocations so far
  pricesColl,        \* collection 'prices', in insertion order
  volumesColl,       \* collection 'volumes', in insertion order
  metadataColl,      \* collection 'metadata': the api_usage document, if any
  \* ---- transformVolumeData on its own ----
  tickers,           \* the argument's tickers array
  volumeDoc,         \* the returned document, once computed
  shuffled,          \* the same tickers in another order
  shuffledDoc,       \* the document returned for them, once computed
  \* ---- query handlers (GET /api/prices, /api/volumes, ...) ----
  query              \* the query request being served: its position and its locals

rateVars == <<callCount, elapsed, pc, timer, issuedSinceReset, observing, winAge, winCount>>

cycleVars == <<now, provider, cronSecret, run, started, pricesColl, volumesColl, metadataColl>>

volumeVars == <<tickers, volumeDoc, shuffled, shuffledDoc>>

queryVars == <<query>>

vars == <<rateVars, cycleVars, volumeVars, queryVars>>

\* JavaScript undefined and null where a string is expected.
Undefined == "undefined"
Null == "null"

\* An absent document or result (findOne() returning null, an unset local).
NoValue == [absent |-> TRUE]

Min(a, b) == IF a <= b THEN a ELSE b

-----------------------------------------------------------------------------
(* Rate-limited fetch client *)

CALLS_PER_MINUTE == 25
RESET_INTERVAL == 60 * 1000
WAIT_MARGIN == 100

\* Time advances in steps of RESET_INTERVAL / TicksPerWindow, or up to the
\* next timer deadline.
TicksPerWindow == 3
TickMs == RESET_INTERVAL \div TicksPerWindow

\* Every elapsed time above RESET_INTERVAL is treated alike by the code
\* (checkRateLimit resets, waitForRateLimit does not wait).
Expired == RESET_INTERVAL + 1

\* Observer counters stop counting here.
CountCap == CALLS_PER_MINUTE + 2

\* The three calls fetchAllData keeps in flight at once.
Callers == {"prices", "coin", "tickers"}

\* What the provider answers to one request: 2xx, 429, any other failure.
Outcomes == {"ok", "throttled", "error"}

\* checkRateLimit(): the counter state after the call and its return value.
checkRateLimit(cc, el) ==
  LET expired == el > RESET_INTERVAL
      cc1 == IF expired THEN 0 ELSE cc
      el1 == IF expired THEN 0 ELSE el
  IN  IF cc1 >= CALLS_PER_MINUTE
        THEN [ok |-> FALSE, callCount |-> cc1, elapsed |-> el1, reset |-> expired]
        ELSE [ok |-> TRUE, callCount |-> cc1 + 1, elapsed |-> el1, reset |-> expired]

\* waitForRateLimit(): const timeUntilReset
timeUntilReset(el) == RESET_INTERVAL - el

\* fetch(url): one provider request leaves the process.
\* The observer may start a rolling 60-second window at any request.
IssueRequest(c, isr) ==
  /\ pc' = [pc EXCEPT ![c] = "fetching"]
  /\ timer' = [timer EXCEPT ![c] = 0]
  /\ issuedSinceReset' = Min(isr + 1, CountCap)
  /\ \/ winAge >= 0 /\ winCount' = Min(winCount + 1, CountCap) /\ UNCHANGED winAge
     \/ winAge = -1 /\ UNCHANGED <<winAge, winCount>>
     \/ winAge = -1 /\ observing /\ winAge' = 0 /\ winCount' = 1
  /\ UNCHANGED observing

\* await new Promise((resolve) => setTimeout(resolve, timeUntilReset + 100))
Suspend(c, where, el, isr) ==
  /\ pc' = [pc EXCEPT ![c] = where]
  /\ timer' = [timer EXCEPT ![c] = timeUntilReset(el) + WAIT_MARGIN]
  /\ issuedSinceReset' = isr
  /\ UNCHANGED <<observing, winAge, winCount>>

\* fetchFromCoinGecko from its entry to its first suspension, run on the
\* counter state (cc, el): checkRateLimit, then either the request or the wait.
fetchFromCoinGecko(c, cc, el, isr) ==
  LET r == checkRateLimit(cc, el)
      isr1 == IF r.reset THEN 0 ELSE isr
  IN  /\ callCount' = r.callCount
      /\ elapsed' = r.elapsed
      /\ IF r.ok
           THEN IssueRequest(c, isr1)
           ELSE IF timeUntilReset(r.elapsed) > 0
                  THEN Suspend(c, "waitSaturated", r.elapsed, isr1)
                  ELSE IssueRequest(c, isr1)

\* A caller (fetchPrices / fetchCoinData / fetchTickers) starts a call.
Call(c) ==
  /\ pc[c] \in {"idle", "returned", "failed"}
  /\ UNCHANGED <<cycleVars, volumeVars, queryVars>>
  /\ fetchFromCoinGecko(c, callCount, elapsed, issuedSinceReset)

\* The setTimeout of a call that found the counter saturated fires:
\* waitForRateLimit resets the counter, fetchFromCoinGecko goes on to fetch.
WakeSaturated(c) ==
  /\ pc[c] = "waitSaturated"
  /\ timer[c] = 0
  /\ UNCHANGED <<cycleVars, volumeVars, queryVars>>
  /\ callCount' = 0
  /\ elapsed' = 0
  /\ IssueRequest(c, 0)

\* The provider's response arrives.
Respond(c, o) ==
  /\ pc[c] = "fetching"
  /\ UNCHANGED <<cycleVars, volumeVars, queryVars>>
  /\ CASE o = "ok" ->
            /\ pc' = [pc EXCEPT ![c] = "returned"]
            /\ UNCHANGED <<callCount, elapsed, timer, issuedSinceReset, observing, winAge, winCount>>
       [] o = "error" ->
            /\ pc' = [pc EXCEPT ![c] = "failed"]
            /\ UNCHANGED <<callCount, elapsed, timer, issuedSinceReset, observing, winAge, winCount>>
       [] o = "throttled" ->
            IF timeUntilReset(elapsed) > 0
              THEN /\ Suspend(c, "wait429", elapsed, issuedSinceReset)
                   /\ UNCHANGED <<callCount, elapsed>>
              ELSE fetchFromCoinGecko(c, callCount, elapsed, issuedSinceReset)

\* The setTimeout of a throttled call fires: reset, then the recursive call.
Wake429(c) ==
  /\ pc[c] = "wait429"
  /\ timer[c] = 0
  /\ UNCHANGED <<cycleVars, volumeVars, queryVars>>
  /\ fetchFromCoinGecko(c, 0, 0, 0)

Pending == {c \in Callers : pc[c] \in {"waitSaturated", "wait429"}}

\* Time passes; a due timer fires before time moves on.
Tick(d) ==
  /\ d > 0
  /\ \A c \in Pending : timer[c] >= d
  /\ elapsed' = Min(elapsed + d, Expired)
  /\ timer' = [c \in Callers |-> IF c \in Pending THEN timer[c] - d ELSE 0]
  /\ IF winAge >= 0 /\ winAge + d < RESET_INTERVAL
       THEN winAge' = winAge + d /\ UNCHANGED winCount
       ELSE winAge' = -1 /\ winCount' = 0
  /\ UNCHANGED <<callCount, pc, issuedSinceReset, observing>>
  /\ UNCHANGED <<cycleVars, volumeVars, queryVars>>

Advance == \E d \in {TickMs} \cup {timer[c] : c \in Pending} : Tick(d)

-----------------------------------------------------------------------------
(* Snapshot builders (pure functions of coingecko.ts) *)

RECURSIVE GCD(_, _)
GCD(a, b) == IF b = 0 THEN a ELSE GCD(b, a % b)

\* JavaScript a / b on non-negative numbers: x/0 is Infinity, 0/0 is NaN,
\* anything else the exact quotient (kept as a reduced fraction).
Quotient(a, b) ==
  IF b = 0
    THEN (IF a = 0 THEN [special |-> "NaN"] ELSE [special |-> "Infinity"])
    ELSE [num |-> a \div GCD(a, b), den |-> b \div GCD(a, b)]

IsFinite(q) == "num" \in DOMAIN q

\* { ...a, ...b }
Spread(a, b) ==
  [f \in DOMAIN a \cup DOMAIN b |-> IF f \in DOMAIN b THEN b[f] ELSE a[f]]

\* transformPriceData(data, coinData) evaluated at time t. A coinData without
\* market_data (or no coinData at all) has no "market_data" field.
transformPriceData(data, coinData, t) ==
  LET nearUsd == data.near.usd
      btcUsd == data.bitcoin.usd
      ethUsd == data.ethereum.usd
      baseData == [timestamp |-> t,
                   near_usd |-> nearUsd,
                   btc_usd |-> btcUsd,
                   eth_usd |-> ethUsd,
                   near_btc |-> Quotient(nearUsd, btcUsd),
                   near_eth |-> Quotient(nearUsd, ethUsd),
                   market_cap |-> data.near.usd_market_cap,
                   volume_24h |-> data.near.usd_24h_vol,
                   price_change_24h |-> data.near.usd_24h_change]
  IN  IF "market_data" \in DOMAIN coinData
        THEN LET md == coinData.market_data
             IN  Spread(baseData,
                   [market_cap_rank |-> coinData.market_cap_rank,
                    ath |-> md.ath.usd,
                    ath_change_percentage |-> md.ath_change_percentage.usd,
                    ath_date |-> md.ath_date.usd,
                    atl |-> md.atl.usd,
                    atl_change_percentage |-> md.atl_change_percentage.usd,
                    price_change_7d |-> md.price_change_percentage_7d,
                    price_change_30d |-> md.price_change_percentage_30d,
                    high_24h |-> md.high_24h.usd,
                    low_24h |-> md.low_24h.usd,
                    circulating_supply |-> md.circulating_supply,
                    total_supply |-> md.total_supply,
                    fully_diluted_valuation |-> md.fully_diluted_valuation.usd])
        ELSE baseData

\* The fields of baseData.
CoreFields ==
  {"timestamp", "near_usd", "btc_usd", "eth_usd", "near_btc", "near_eth",
   "market_cap", "volume_24h", "price_change_24h"}

\* exchanges.slice(0, 20)
TOP_EXCHANGES == 20

\* `${ticker.base}/${ticker.target}`
PairLabel(t) == <<t.base, "/", t.target>>

\* A variant of the loop body in which a later ticker of an exchange replaces
\* the volumes accumulated so far.
Accumulate_overwrites(map, t) ==
  IF t.is_anomaly \/ t.is_stale
    THEN map
    ELSE IF \E i \in 1..Len(map) : map[i].name = t.market.name
      THEN [i \in 1..Len(map) |->
              IF map[i].name = t.market.name
                THEN [map[i] EXCEPT
                        !.volume_usd = t.converted_volume.usd,
                        !.volume_near = t.volume,
                        !.trading_pairs =
                           IF \E j \in 1..Len(@) : @[j] = <<t.base, "/", t.target>>
                             THEN @ ELSE Append(@, <<t.base, "/", t.target>>)]
                ELSE map[i]]
      ELSE Append(map, [name |-> t.market.name,
                        volume_usd |-> t.converted_volume.usd,
                        volume_near |-> t.volume,
                        trading_pairs |-> << <<t.base, "/", t.target>> >>,
                        trust_score |-> t.trust_score,
                        trade_url |-> IF t.trade_url \in {Null, ""}
                                        THEN Undefined ELSE t.trade_url])

\* A variant of the loop body without the skip of anomalous or stale tickers.
Accumulate_keepsFlagged(map, t) ==
  IF \E i \in 1..Len(map) : map[i].name = t.market.name
    THEN [i \in 1..Len(map) |->
            IF map[i].name = t.market.name
              THEN [map[i] EXCEPT
                      !.volume_usd = @ + t.converted_volume.usd,
                      !.volume_near = @ + t.volume,
                      !.trading_pairs =
                         IF \E j \in 1..Len(@) : @[j] = PairLabel(t)
                           THEN @ ELSE Append(@, PairLabel(t))]
              ELSE map[i]]
    ELSE Append(map, [name |-> t.market.name,
                      volume_usd |-> t.converted_volume.usd,
                      volume_near |-> t.volume,
                      trading_pairs |-> <<PairLabel(t)>>,
                      trust_score |-> t.trust_score,
                      trade_url |-> IF t.trade_url \in {Null, ""}
                                      THEN Undefined ELSE t.trade_url])

\* A variant of the loop body in which a flagged ticker of an exchange not
\* seen before opens an entry without volume.
Accumulate_zeroBucket(map, t) ==
  IF \E i \in 1..Len(map) : map[i].name = t.market.name
    THEN IF t.is_anomaly \/ t.is_stale
      THEN map
      ELSE [i \in 1..Len(map) |->
              IF map[i].name = t.market.name
                THEN [map[i] EXCEPT
                        !.volume_usd = @ + t.converted_volume.usd,
                        !.volume_near = @ + t.volume,
                        !.trading_pairs =
                           IF \E j \in 1..Len(@) : @[j] = PairLabel(t)
                             THEN @ ELSE Append(@, PairLabel(t))]
                ELSE map[i]]
    ELSE IF t.is_anomaly \/ t.is_stale
      THEN Append(map, [name |-> t.market.name, volume_usd |-> 0, volume_near |-> 0,
                        trading_pairs |-> <<>>, trust_score |-> t.trust_score,
                        trade_url |-> Undefined])
      ELSE Append(map, [name |-> t.market.name,
                        volume_usd |-> t.converted_volume.usd,
                        volume_near |-> t.volume,
                        trading_pairs |-> <<PairLabel(t)>>,
                        trust_score |-> t.trust_score,
                        trade_url |-> IF t.trade_url \in {Null, ""}
                                        THEN Undefined ELSE t.trade_url])

\* A variant of the loop body in which every valid ticker of an exchange
\* replaces its trust_score and trade_url.
Accumulate_lastSeen(map, t) ==
  IF t.is_anomaly \/ t.is_stale
    THEN map
    ELSE IF \E i \in 1..Len(map) : map[i].name = t.market.name
      THEN [i \in 1..Len(map) |->
              IF map[i].name = t.market.name
                THEN [map[i] EXCEPT
                        !.volume_usd = @ + t.converted_volume.usd,
                        !.volume_near = @ + t.volume,
                        !.trading_pairs =
                           IF \E j \in 1..Len(@) : @[j] = <<t.base, "/", t.target>>
                             THEN @ ELSE Append(@, <<t.base, "/", t.target>>),
                        !.trust_score = t.trust_score,
                        !.trade_url = IF t.trade_url \in {Null, ""}
                                        THEN Undefined ELSE t.trade_url]
                ELSE map[i]]
      ELSE Append(map, [name |-> t.market.name,
                        volume_usd |-> t.converted_volume.usd,
                        volume_near |-> t.volume,
                        trading_pairs |-> << <<t.base, "/", t.target>> >>,
                        trust_score |-> t.trust_score,
                        trade_url |-> IF t.trade_url \in {Null, ""}
                                        THEN Undefined ELSE t.trade_url])

\* One iteration of the for-loop over data.tickers. The Map is kept as the
\* sequence of its values in insertion order (the order of Map.values()).
Accumulate(map, t) ==
  IF t.is_anomaly \/ t.is_stale
    THEN map
    ELSE IF \E i \in 1..Len(map) : map[i].name = t.market.name
      THEN [i \in 1..Len(map) |->
              IF map[i].name = t.market.name
                THEN [map[i] EXCEPT
                        !.volume_usd = @ + t.converted_volume.usd,
                        !.volume_near = @ + t.volume,
                        !.trading_pairs =
                           IF \E j \in 1..Len(@) : @[j] = PairLabel(t)
                             THEN @ ELSE Append(@, PairLabel(t))]
                ELSE map[i]]
      ELSE Append(map, [name |-> t.market.name,
                        volume_usd |-> t.converted_volume.usd,
                        volume_near |-> t.volume,
                        trading_pairs |-> <<PairLabel(t)>>,
                        trust_score |-> t.trust_score,
                        trade_url |-> IF t.trade_url \in {Null, ""}
                                        THEN Undefined ELSE t.trade_url])

\* The whole for-loop.
RECURSIVE exchangeMap(_)
exchangeMap(ts) ==
  IF ts = <<>> THEN <<>>
  ELSE Accumulate(exchangeMap(SubSeq(ts, 1, Len(ts) - 1)), ts[Len(ts)])

\* A variant of the insertion that puts e in front of the elements of equal
\* volume_usd.
InsertByVolume_beforeEquals(sorted, e) ==
  LET k == Cardinality({i \in 1..Len(sorted) : sorted[i].volume_usd > e.volume_usd})
  IN  SubSeq(sorted, 1, k) \o <<e>> \o SubSeq(sorted, k + 1, Len(sorted))

\* Array.prototype.sort((a, b) => b.volume_usd - a.volume_usd): a stable sort,
\* descending by volume_usd. Inserting e into an already sorted prefix puts
\* it behind every element that does not compare after it.
InsertByVolume(sorted, e) ==
  LET k == Cardinality({i \in 1..Len(sorted) : sorted[i].volume_usd >= e.volume_usd})
  IN  SubSeq(sorted, 1, k) \o <<e>> \o SubSeq(sorted, k + 1, Len(sorted))

RECURSIVE SortByVolume(_)
SortByVolume(s) ==
  IF s = <<>> THEN <<>>
  ELSE InsertByVolume(SortByVolume(SubSeq(s, 1, Len(s) - 1)), s[Len(s)])

\* exchanges.reduce((sum, e) => sum + e[field], 0)
RECURSIVE SumField(_, _)
SumField(s, field) ==
  IF s = <<>> THEN 0
  ELSE SumField(SubSeq(s, 1, Len(s) - 1), field) + s[Len(s)][field]

\* A variant that totals the truncated list instead of the full one.
transformVolumeData_totalsAfterSlice(data, t) ==
  LET exchanges == SortByVolume(exchangeMap(data.tickers))
      kept == SubSeq(exchanges, 1, Min(TOP_EXCHANGES, Len(exchanges)))
  IN  [timestamp |-> t,
       total_volume_usd |-> SumField(kept, "volume_usd"),
       total_volume_near |-> SumField(kept, "volume_near"),
       exchange_count |-> Len(exchanges),
       exchanges |-> kept]

\* A variant that counts the exchanges after truncating the list.
transformVolumeData_countAfterSlice(data, t) ==
  LET exchanges == SortByVolume(exchangeMap(data.tickers))
      kept == SubSeq(exchanges, 1, Min(TOP_EXCHANGES, Len(exchanges)))
  IN  [timestamp |-> t,
       total_volume_usd |-> SumField(exchanges, "volume_usd"),
       total_volume_near |-> SumField(exchanges, "volume_near"),
       exchange_count |-> Len(kept),
       exchanges |-> kept]

\* transformVolumeData(data) evaluated at time t.
transformVolumeData(data, t) ==
  LET exchanges == SortByVolume(exchangeMap(data.tickers))
  IN  [timestamp |-> t,
       total_volume_usd |-> SumField(exchanges, "volume_usd"),
       total_volume_near |-> SumField(exchanges, "volume_near"),
       exchange_count |-> Len(exchanges),
       exchanges |-> SubSeq(exchanges, 1, Min(TOP_EXCHANGES, Len(exchanges)))]

-----------------------------------------------------------------------------
(* Provider data *)

PriceResponse(n, b, e) ==
  [near |-> [usd |-> n, usd_market_cap |-> 1000 * n, usd_24h_vol |-> 100 * n,
             usd_24h_change |-> 1],
   bitcoin |-> [usd |-> b],
   ethereum |-> [usd |-> e]]

MarketData ==
  [ath |-> [usd |-> 20], ath_change_percentage |-> [usd |-> 70],
   ath_date |-> [usd |-> "2022-01-16"], atl |-> [usd |-> 1],
   atl_change_percentage |-> [usd |-> 500],
   price_change_percentage_7d |-> 2, price_change_percentage_30d |-> 3,
   high_24h |-> [usd |-> 7], low_24h |-> [usd |-> 5],
   circulating_supply |-> 1200, total_supply |-> 1250,
   fully_diluted_valuation |-> [usd |-> 7500]]

Ticker(name, usd, vol, target, anomaly, stale, trust, url) ==
  [base |-> "NEAR", target |-> target, market |-> [name |-> name],
   volume |-> vol, converted_volume |-> [usd |-> usd], trust_score |-> trust,
   is_anomaly |-> anomaly, is_stale |-> stale, trade_url |-> url]

\* Two tickers of one exchange (one of them anomalous) and one ticker of
\* another exchange.
ScenarioA ==
  <<Ticker(1, 50, 10, "USDT", FALSE, FALSE, "green", "https://x/near_usdt"),
    Ticker(1, 900, 180, "BTC", TRUE, FALSE, "red", Null),
    Ticker(2, 30, 6, "USDT", FALSE, FALSE, Null, "")>>

\* The deployments the handler is run in: the configured secret and what the
\* provider serves.
Environments ==
  LET secret == [set |-> TRUE, text |-> <<"s3cret">>]
      unset == [set |-> FALSE, text |-> <<>>]
      rich == [market_cap_rank |-> 30, market_data |-> MarketData]
      bare == [market_cap_rank |-> 30]
      none == [tickers |-> <<>>]
      some == [tickers |-> ScenarioA]
  IN  {[secret |-> secret, prices |-> PriceResponse(6, 3, 2), coin |-> rich, tickers |-> some],
       [secret |-> secret, prices |-> PriceResponse(6, 3, 0), coin |-> bare, tickers |-> none],
       [secret |-> secret, prices |-> PriceResponse(0, 0, 2), coin |-> rich, tickers |-> some],
       [secret |-> unset, prices |-> PriceResponse(6, 3, 2), coin |-> rich, tickers |-> some]}

-----------------------------------------------------------------------------
(* Cron ingestion handler: POST /api/cron/fetch-data *)

\* Handler invocations that may be in progress at once.
Runs == {"r1", "r2"}
\* Handler invocations in all.
MaxCycles == 2
\* The clock runs from 0 to MaxNow, TicksPerDay ticks to a UTC day.
MaxNow == 2
TicksPerDay == 2

\* date.toISOString().split('T')[0]
DayOf(ts) == ts \div TicksPerDay
\* new Date('YYYY-MM-DD')
DayStart(day) == day * TicksPerDay

\* Strings that matter to validateCronSecret, as sequences of tokens.
NullHeader == [null |-> TRUE, text |-> <<>>]
Header(text) == [null |-> FALSE, text |-> text]
AuthHeaders ==
  {NullHeader, Header(<<>>), Header(<<"Bearer ", "s3cret">>),
   Header(<<"s3cret">>), Header(<<"Bearer ", "wrong">>)}

\* text.replace(token, ''): drops the first occurrence only.
ReplaceFirst(text, token) ==
  IF \E i \in 1..Len(text) : text[i] = token
    THEN LET i == CHOOSE i \in 1..Len(text) :
                    /\ text[i] = token
                    /\ \A j \in 1..(i - 1) : text[j] # token
         IN  SubSeq(text, 1, i - 1) \o SubSeq(text, i + 1, Len(text))
    ELSE text

\* A variant that asks for a Bearer header only.
validateCronSecret_anyBearer(authHeader, expectedSecret) ==
  IF authHeader.null \/ authHeader.text = <<>> THEN FALSE
  ELSE authHeader.text[1] = "Bearer "

validateCronSecret(authHeader, expectedSecret) ==
  IF authHeader.null \/ authHeader.text = <<>> THEN FALSE
  ELSE IF ~expectedSecret.set \/ expectedSecret.text = <<>> THEN FALSE
  ELSE ReplaceFirst(authHeader.text, "Bearer ") = expectedSecret.text

\* Promise.all over a prices-only and coin-only view of the three calls:
\* a variant that lets a failed tickers call through.
PromiseAll_tickersIgnored(op, oc, ot) ==
  IF op = "error" \/ oc = "error" THEN "rejected" ELSE "fulfilled"

\* Promise.all([fetchPrices(), fetchCoinData(), fetchTickers()])
PromiseAll(op, oc, ot) ==
  IF op = "error" \/ oc = "error" \/ ot = "error" THEN "rejected" ELSE "fulfilled"

IdleRun ==
  [pc |-> "idle", fetched |-> NoValue, prices |-> NoValue, volumes |-> NoValue,
   priceResult |-> NoValue, volumeResult |-> NoValue, today |-> 0,
   wrote |-> {}, failedAt |-> "none", response |-> NoValue]

\* The catch block: the structured failure response. The handler's data
\* locals end with it.
Catch(r, where, message) ==
  [r EXCEPT !.pc = "done",
            !.prices = NoValue,
            !.volumes = NoValue,
            !.failedAt = where,
            !.response = [status |-> 500, success |-> FALSE, error |-> message,
                          pricesStored |-> 0, volumesStored |-> 0]]

\* const result: FetchDataResult = ...; return NextResponse.json(result)
Succeed(r) ==
  [r EXCEPT !.pc = "done",
            !.prices = NoValue,
            !.volumes = NoValue,
            !.response = [status |-> 200, success |-> TRUE,
                          pricesStored |-> IF r.priceResult.acknowledged THEN 1 ELSE 0,
                          volumesStored |-> IF r.volumeResult.acknowledged THEN 1 ELSE 0]]

\* A request arrives (the previous one, if any, has been answered):
\* validateCronSecret, then fetchAllData is called.
Start(k, authHeader) ==
  /\ run[k].pc \in {"idle", "done"}
  /\ started < MaxCycles
  /\ started' = started + 1
  /\ run' = [run EXCEPT ![k] =
       IF ~validateCronSecret(authHeader, cronSecret)
         THEN [IdleRun EXCEPT !.pc = "done",
                 !.response = [status |-> 401, success |-> FALSE, error |-> "Unauthorized"]]
         ELSE [IdleRun EXCEPT !.pc = "fetchAllData"]]
  /\ UNCHANGED <<now, provider, cronSecret, pricesColl, volumesColl, metadataColl>>
  /\ UNCHANGED <<rateVars, volumeVars, queryVars>>

\* await fetchAllData(): the three provider calls settle, each with a body
\* or an error, and the two transforms run.
FetchAllData(k, op, oc, ot) ==
  /\ run[k].pc = "fetchAllData"
  /\ LET r == [run[k] EXCEPT !.fetched = [prices |-> op, coin |-> oc, tickers |-> ot]]
     IN  run' = [run EXCEPT ![k] =
           IF PromiseAll(op, oc, ot) = "rejected"
             THEN Catch(r, "fetchAllData", "CoinGecko API error")
             ELSE [r EXCEPT !.pc = "getCollections",
                            !.prices = transformPriceData(provider.prices, provider.coin, now),
                            !.volumes = transformVolumeData(provider.tickers, now)]]
  /\ UNCHANGED <<now, provider, cronSecret, started, pricesColl, volumesColl, metadataColl>>
  /\ UNCHANGED <<rateVars, volumeVars, queryVars>>

\* await getPricesCollection() / getVolumesCollection() / getMetadataCollection()
GetCollections(k, ok) ==
  /\ run[k].pc = "getCollections"
  /\ run' = [run EXCEPT ![k] =
       IF ok THEN [@ EXCEPT !.pc = "insertPrice"]
       ELSE Catch(@, "getCollections", "MongoDB connection error")]
  /\ UNCHANGED <<now, provider, cronSecret, started, pricesColl, volumesColl, metadataColl>>
  /\ UNCHANGED <<rateVars, volumeVars, queryVars>>

\* A variant of insertOne that replaces a stored document of the same
\* timestamp (an upsert keyed by timestamp).
insertOne_replacesSameTimestamp(coll, doc) ==
  IF \E i \in 1..Len(coll) : coll[i].timestamp = doc.timestamp
    THEN [i \in 1..Len(coll) |-> IF coll[i].timestamp = doc.timestamp THEN doc ELSE coll[i]]
    ELSE Append(coll, doc)

\* collection.insertOne(doc): the document is added under a fresh _id, the
\* stored ones stay as they are.
insertOne(coll, doc) == Append(coll, doc)

\* await pricesCollection.insertOne({ ...prices, timestamp: new Date() })
InsertPrice(k, ok) ==
  /\ run[k].pc = "insertPrice"
  /\ IF ok
       THEN /\ pricesColl' = insertOne(pricesColl, [run[k].prices EXCEPT !.timestamp = now])
            /\ run' = [run EXCEPT ![k] =
                 [@ EXCEPT !.pc = "insertVolume",
                           !.wrote = @ \cup {"prices"},
                           !.priceResult = [acknowledged |-> TRUE,
                                            insertedId |-> Len(pricesColl) + 1]]]
       ELSE /\ run' = [run EXCEPT ![k] = Catch(@, "insertPrice", "MongoDB write error")]
            /\ UNCHANGED pricesColl
  /\ UNCHANGED <<now, provider, cronSecret, started, volumesColl, metadataColl>>
  /\ UNCHANGED <<rateVars, volumeVars, queryVars>>

\* await volumesCollection.insertOne({ ...volumes, timestamp: new Date() })
InsertVolume(k, ok) ==
  /\ run[k].pc = "insertVolume"
  /\ IF ok
       THEN /\ volumesColl' = insertOne(volumesColl, [run[k].volumes EXCEPT !.timestamp = now])
            /\ run' = [run EXCEPT ![k] =
                 [@ EXCEPT !.pc = "updateMetadata",
                           !.wrote = @ \cup {"volumes"},
                           !.volumeResult = [acknowledged |-> TRUE,
                                             insertedId |-> Len(volumesColl) + 1]]]
       ELSE /\ run' = [run EXCEPT ![k] = Catch(@, "insertVolume", "MongoDB write error")]
            /\ UNCHANGED volumesColl
  /\ UNCHANGED <<now, provider, cronSecret, started, pricesColl, metadataColl>>
  /\ UNCHANGED <<rateVars, volumeVars, queryVars>>

\* const today = ...; await metadataCollection.updateOne({ key: 'api_usage' },
\*   { $set, $inc, $setOnInsert }, { upsert: true })
UpdateMetadata(k, ok) ==
  /\ run[k].pc = "updateMetadata"
  /\ LET today == DayOf(now)
     IN  IF ok
           THEN /\ metadataColl' =
                     IF metadataColl = NoValue
                       THEN [key |-> "api_usage", last_updated |-> now,
                             api_calls_today |-> 3, api_calls_month |-> 3,
                             last_reset_date |-> DayStart(today)]
                       ELSE [metadataColl EXCEPT !.last_updated = now,
                                                 !.api_calls_today = @ + 3,
                                                 !.api_calls_month = @ + 3]
                /\ run' = [run EXCEPT ![k] =
                     [@ EXCEPT !.pc = "findMetadata", !.today = today,
                               !.wrote = @ \cup {"metadata"}]]
           ELSE /\ run' = [run EXCEPT ![k] =
                     Catch([@ EXCEPT !.today = today], "updateMetadata", "MongoDB write error")]
                /\ UNCHANGED metadataColl
  /\ UNCHANGED <<now, provider, cronSecret, started, pricesColl, volumesColl>>
  /\ UNCHANGED <<rateVars, volumeVars, queryVars>>

\* const metadata = await metadataCollection.findOne({ key: 'api_usage' }),
\* then either the daily reset is due or the handler answers.
FindMetadata(k, ok) ==
  /\ run[k].pc = "findMetadata"
  /\ run' = [run EXCEPT ![k] =
       IF ~ok THEN Catch(@, "findMetadata", "MongoDB read error")
       ELSE IF metadataColl # NoValue /\ DayOf(metadataColl.last_reset_date) # @.today
         THEN [@ EXCEPT !.pc = "resetDaily"]
         ELSE Succeed(@)]
  /\ UNCHANGED <<now, provider, cronSecret, started, pricesColl, volumesColl, metadataColl>>
  /\ UNCHANGED <<rateVars, volumeVars, queryVars>>

\* A variant of the daily reset that moves last_reset_date and leaves the
\* counter as it is.
ResetDaily_keepsCount(k, ok) ==
  /\ run[k].pc = "resetDaily"
  /\ IF ok
       THEN /\ metadataColl' =
                 IF metadataColl = NoValue THEN NoValue
                 ELSE [metadataColl EXCEPT !.last_reset_date = DayStart(run[k].today)]
            /\ run' = [run EXCEPT ![k] = Succeed(@)]
       ELSE /\ run' = [run EXCEPT ![k] = Catch(@, "resetDaily", "MongoDB write error")]
            /\ UNCHANGED metadataColl
  /\ UNCHANGED <<now, provider, cronSecret, started, pricesColl, volumesColl>>
  /\ UNCHANGED <<rateVars, volumeVars, queryVars>>

\* await metadataCollection.updateOne({ key: 'api_usage' },
\*   { $set: { api_calls_today: 3, last_reset_date: new Date(today) } })
ResetDaily(k, ok) ==
  /\ run[k].pc = "resetDaily"
  /\ IF ok
       THEN /\ metadataColl' =
                 IF metadataColl = NoValue THEN NoValue
                 ELSE [metadataColl EXCEPT !.api_calls_today = 3,
                                           !.last_reset_date = DayStart(run[k].today)]
            /\ run' = [run EXCEPT ![k] = Succeed(@)]
       ELSE /\ run' = [run EXCEPT ![k] = Catch(@, "resetDaily", "MongoDB write error")]
            /\ UNCHANGED metadataColl
  /\ UNCHANGED <<now, provider, cronSecret, started, pricesColl, volumesColl>>
  /\ UNCHANGED <<rateVars, volumeVars, queryVars>>

\* The wall clock moves on.
ClockTick ==
  /\ now < MaxNow
  /\ now' = now + 1
  /\ UNCHANGED <<provider, cronSecret, run, started, pricesColl, volumesColl, metadataColl>>
  /\ UNCHANGED <<rateVars, volumeVars, queryVars>>

-----------------------------------------------------------------------------
(* transformVolumeData on its own *)

\* Tickers chosen freely at the head of the input, and exchanges that follow
\* with one valid ticker each.
MaxFree == 2
MaxBulk == 25

\* The freely chosen tickers: an exchange that the rest of the input also
\* lists (1) or not (99), of two kinds, valid or flagged; one ticker carries
\* both flags.
Flags == {<<FALSE, FALSE>>, <<TRUE, FALSE>>, <<FALSE, TRUE>>}

FreeTickers ==
  {Ticker(name, 5, 1, "USDT", f[1], f[2], "green", "https://t/near_usdt") :
     name \in {1, 99}, f \in Flags}
  \cup
  {Ticker(name, 10, 3, "BTC", f[1], f[2], Null, "") :
     name \in {1, 99}, f \in Flags}
  \cup
  {Ticker(99, 5, 1, "USDT", TRUE, TRUE, "green", "https://t/near_usdt")}

FreeLists == UNION {[1..n -> FreeTickers] : n \in 0..MaxFree}

\* How the volumes of the exchanges that follow are ordered.
Patterns == {"ascending", "descending", "equal"}

BulkTicker(i, m, pattern) ==
  LET usd == CASE pattern = "ascending" -> 10 * i
               [] pattern = "descending" -> 10 * (m + 1 - i)
               [] pattern = "equal" -> 10
  IN  Ticker(i, usd, i, "USDT", FALSE, FALSE, "yellow", Null)

Bulk(m, pattern) == [i \in 1..m |-> BulkTicker(i, m, pattern)]

\* How many exchanges follow: few, or about as many as are kept.
BulkSizes == {0, 1, 2} \cup ((TOP_EXCHANGES - 1)..MaxBulk)

TickerLists ==
  {free \o Bulk(m, pattern) : free \in FreeLists, m \in BulkSizes, pattern \in Patterns}

\* transformVolumeData(data) is called.
Transform ==
  /\ volumeDoc = NoValue
  /\ volumeDoc' = transformVolumeData([tickers |-> tickers], now)
  /\ UNCHANGED <<tickers, shuffled, shuffledDoc, rateVars, cycleVars, queryVars>>

\* The input in another order: two neighbours exchanged, the first ticker
\* moved to the end, or the whole list reversed. For up to three tickers
\* these are all the orders there are.
Swap(ts, i) ==
  [j \in 1..Len(ts) |-> IF j = i THEN ts[i + 1] ELSE IF j = i + 1 THEN ts[i] ELSE ts[j]]

Rotate(ts) == IF ts = <<>> THEN ts ELSE Tail(ts) \o <<Head(ts)>>

Reverse(ts) == [j \in 1..Len(ts) |-> ts[Len(ts) + 1 - j]]

Rearrangements(ts) ==
  {Swap(ts, i) : i \in 1..(Len(ts) - 1)} \cup {Rotate(ts), Rotate(Rotate(ts)), Reverse(ts)}

\* The lists that are rearranged: the freely chosen tickers alone, or one
\* of them (or none) ahead of the exchanges that follow.
ShuffleLists ==
  FreeLists \cup
  {free \o Bulk(m, pattern) :
     free \in {f \in FreeLists : Len(f) <= 1}, m \in BulkSizes, pattern \in Patterns}

\* transformVolumeData(data) is called with the rearranged tickers.
TransformShuffled ==
  /\ shuffledDoc = NoValue
  /\ shuffledDoc' = transformVolumeData([tickers |-> shuffled], now)
  /\ UNCHANGED <<tickers, volumeDoc, shuffled, rateVars, cycleVars, queryVars>>

-----------------------------------------------------------------------------
(* Query handlers: GET /api/prices, /api/volumes, /api/volumes/history,     *)
(* /api/volumes/history/exchanges                                           *)

\* Clock readings per second: in the store of the query handlers a Date is a
\* count of 1/Resolution seconds.
Resolution == 2

Seconds(n) == n * Resolution
Minutes(n) == Seconds(60 * n)
Hours(n) == Minutes(60 * n)
Days(n) == Hours(24 * n)

\* Math.floor(doc.timestamp.getTime() / 1000)
UnixSeconds(ts) == ts \div Seconds(1)

\* doc.timestamp.toISOString().split('T')[0]: the UTC day, which orders as
\* its YYYY-MM-DD string does.
IsoDate(ts) == ts \div Days(1)

\* A variant that only asks for some text.
isValidTimeRange_anyText(value) == value \notin {Null, ""}

\* ['1h', '24h', '7d', '30d'].includes(value)
isValidTimeRange(value) == value \in {"1h", "24h", "7d", "30d"}

\* getTimeRangeStart(range), new Date() reading t.
getTimeRangeStart(range, t) ==
  CASE range = "1h" -> t - Hours(1)
    [] range = "24h" -> t - Hours(24)
    [] range = "7d" -> t - Days(7)
    [] range = "30d" -> t - Days(30)
    [] OTHER -> t - Hours(24)

\* searchParams.get(name) || fallback: an absent (null) or empty value gives
\* the fallback.
OrDefault(value, fallback) == IF value \in {Null, ""} THEN fallback ELSE value

\* What a request may carry as ?range= : nothing, an empty value, the four
\* tokens, and a value that is none of them.
RangeParams == {Null, "", "1h", "24h", "7d", "30d", "1d"}

\* What a request may carry as ?limit= .
LimitParams == {Null, "9", "-1", "abc"}

\* parseInt(text) on the values above and on the fallback '5'; NaN for text
\* that does not start with a number.
parseInt(text) ==
  CASE text = "5" -> [nan |-> FALSE, value |-> 5]
    [] text = "9" -> [nan |-> FALSE, value |-> 9]
    [] text = "-1" -> [nan |-> FALSE, value |-> -1]
    [] OTHER -> [nan |-> TRUE, value |-> 0]

\* Math.min(n, bound): NaN if n is NaN.
MathMin(n, bound) == IF n.nan THEN n ELSE [nan |-> FALSE, value |-> Min(n.value, bound)]

\* array.slice(from, to) with from >= 0: a NaN end counts as 0, a negative
\* end counts from the end of the array.
Slice(s, from, to) ==
  LET end == IF to.nan THEN 0
             ELSE IF to.value < 0 THEN (IF Len(s) + to.value < 0 THEN 0 ELSE Len(s) + to.value)
             ELSE Min(to.value, Len(s))
  IN  IF from >= end THEN <<>> ELSE SubSeq(s, from + 1, end)

\* array.slice(from)
SliceFrom(s, from) == IF from >= Len(s) THEN <<>> ELSE SubSeq(s, from + 1, Len(s))

Num(n) == [nan |-> FALSE, value |-> n]

\* The handlers.
QueryOps == {"getPrices", "getVolumes", "getVolumeHistory", "getExchangeVolumeHistory"}

\* The handlers that read ?range= .
RangeOps == QueryOps \ {"getVolumes"}

\* The collection a handler reads.
CollectionOf(op) == IF op = "getPrices" THEN pricesColl ELSE volumesColl

\* No query request is being served.
IdleQuery ==
  [op |-> "none", pc |-> "idle", range |-> Null, limit |-> Num(0), accessed |-> FALSE,
   storeFault |-> FALSE, latest |-> NoValue, response |-> NoValue]

\* The permutations of a finite set of indices, as sequences.
RECURSIVE Orders(_)
Orders(S) ==
  IF S = {} THEN {<<>>}
  ELSE UNION {{<<i>> \o rest : rest \in Orders(S \ {i})} : i \in S}

\* collection.find({ timestamp: { $gte: start } }).sort({ timestamp: 1 })
\* .toArray(): the documents at or after start, ascending by timestamp;
\* documents of equal timestamp come in an order the store chooses.
FindSince(coll, start) ==
  LET hits == {i \in 1..Len(coll) : coll[i].timestamp >= start}
      ascending(o) == \A i \in 1..(Len(o) - 1) : coll[o[i]].timestamp <= coll[o[i + 1]].timestamp
  IN  {[i \in 1..Len(o) |-> coll[o[i]]] : o \in {p \in Orders(hits) : ascending(p)}}

\* collection.findOne({}, { sort: { timestamp: -1 } }): a document of the
\* greatest timestamp, null if there is none.
FindLatest(coll) ==
  IF coll = <<>> THEN {NoValue}
  ELSE {coll[i] : i \in {j \in 1..Len(coll) :
                          \A l \in 1..Len(coll) : coll[l].timestamp <= coll[j].timestamp}}

\* collection.findOne({ timestamp: { $gte: start } }, { sort: { timestamp: 1 } }):
\* a document of the least timestamp at or after start, null if there is none.
FindOldestSince(coll, start) ==
  LET hits == {i \in 1..Len(coll) : coll[i].timestamp >= start}
  IN  IF hits = {} THEN {NoValue}
      ELSE {coll[i] : i \in {j \in hits :
                              \A l \in hits : coll[j].timestamp <= coll[l].timestamp}}

\* NextResponse.json({ success: false, error, timestamp }, { status })
Failure(status, error, t) ==
  [status |-> status, success |-> FALSE, error |-> error, timestamp |-> t]

\* NextResponse.json({ success: true, data, timestamp })
Success(data, t) ==
  [status |-> 200, success |-> TRUE, data |-> data, timestamp |-> t]

\* value || 0
OrZero(value) == IF value = 0 THEN 0 ELSE value

\* historicalPrices.map(...) / historicalVolumes.map(...): the chart points.
ChartPoints(docs, range, field) ==
  LET useUnixTimestamp == range = "1h" \/ range = "24h"
  IN  [i \in 1..Len(docs) |->
         [time |-> IF useUnixTimestamp THEN UnixSeconds(docs[i].timestamp)
                   ELSE IsoDate(docs[i].timestamp),
          value |-> docs[i][field]]]

\* GET /api/prices: the data of the response.
PricesData(latestPrice, historicalPrices, range) ==
  [current |-> [near_usd |-> latestPrice.near_usd,
                btc_usd |-> latestPrice.btc_usd,
                eth_usd |-> latestPrice.eth_usd,
                near_btc |-> latestPrice.near_btc,
                near_eth |-> latestPrice.near_eth,
                price_change_24h |-> OrZero(latestPrice.price_change_24h),
                market_cap |-> OrZero(latestPrice.market_cap),
                volume_24h |-> OrZero(latestPrice.volume_24h)],
   historical |-> ChartPoints(historicalPrices, range, "near_usd"),
   lastUpdated |-> latestPrice.timestamp]

\* GET /api/volumes/history: the data of the response.
VolumeHistoryData(latestVolume, historicalVolumes, range) ==
  [historical |-> ChartPoints(historicalVolumes, range, "total_volume_usd"),
   lastUpdated |-> latestVolume.timestamp]

\* EXCHANGE_CONFIG.MAX_DISPLAY_EXCHANGES
MAX_DISPLAY_EXCHANGES == 10

\* EXCHANGE_CONFIG.EXCHANGE_COLORS
EXCHANGE_CONFIG_COLORS ==
  <<"#58a6ff", "#3fb950", "#f85149", "#a371f7", "#db61a2",
    "#f0883e", "#8b949e", "#7ee787", "#79c0ff", "#d2a8ff">>

\* The bucket name 'Others'. Exchange names are numbers here, none is 0.
OthersName == 0

Abs(n) == IF n < 0 THEN -n ELSE n

\* a / b for b > 0, kept as a reduced fraction.
Ratio(a, b) ==
  LET g == GCD(Abs(a), b)
  IN  [num |-> a \div g, den |-> b \div g]

\* calculatePercentage(value, total)
calculatePercentage(value, total) ==
  IF total = 0 THEN Ratio(0, 1) ELSE Ratio(value * 100, total)

\* A variant of the distribution without the "Others" bucket.
VolumeDistribution_noOthers(latestVolume) ==
  LET shown == Slice(latestVolume.exchanges, 0, Num(MAX_DISPLAY_EXCHANGES))
  IN  [index \in 1..Len(shown) |->
         [name |-> shown[index].name,
          value |-> shown[index].volume_usd,
          percentage |-> calculatePercentage(shown[index].volume_usd,
                                             latestVolume.total_volume_usd),
          color |-> EXCHANGE_CONFIG_COLORS[index]]]

\* const distribution = latestVolume.exchanges.slice(0, 10).map(...), then
\* the "Others" bucket if there are more exchanges.
VolumeDistribution(latestVolume) ==
  LET shown == Slice(latestVolume.exchanges, 0, Num(MAX_DISPLAY_EXCHANGES))
      distribution ==
        [index \in 1..Len(shown) |->
           [name |-> shown[index].name,
            value |-> shown[index].volume_usd,
            percentage |-> calculatePercentage(shown[index].volume_usd,
                                               latestVolume.total_volume_usd),
            color |-> EXCHANGE_CONFIG_COLORS[index]]]
      othersVolume ==
        SumField(SliceFrom(latestVolume.exchanges, MAX_DISPLAY_EXCHANGES), "volume_usd")
  IN  IF Len(latestVolume.exchanges) > MAX_DISPLAY_EXCHANGES
        THEN Append(distribution,
                    [name |-> OthersName,
                     value |-> othersVolume,
                     percentage |-> calculatePercentage(othersVolume,
                                                        latestVolume.total_volume_usd),
                     color |-> "#484f58"])
        ELSE distribution

\* A variant of the change that divides by the latest total.
VolumeChange24h_overLatest(latestVolume, oldestVolume) ==
  IF oldestVolume # NoValue /\ latestVolume.total_volume_usd # 0
    THEN Ratio((latestVolume.total_volume_usd - oldestVolume.total_volume_usd) * 100,
               latestVolume.total_volume_usd)
    ELSE Ratio(0, 1)

\* let volumeChange24h = 0; if (oldestVolume && oldestVolume.total_volume_usd) ...
VolumeChange24h(latestVolume, oldestVolume) ==
  IF oldestVolume # NoValue /\ oldestVolume.total_volume_usd # 0
    THEN Ratio((latestVolume.total_volume_usd - oldestVolume.total_volume_usd) * 100,
               oldestVolume.total_volume_usd)
    ELSE Ratio(0, 1)

\* GET /api/volumes: the data of the response.
VolumesData(latestVolume, oldestVolume) ==
  [total_volume_usd |-> latestVolume.total_volume_usd,
   total_volume_near |-> latestVolume.total_volume_near,
   volume_change_24h |-> VolumeChange24h(latestVolume, oldestVolume),
   exchange_count |-> latestVolume.exchange_count,
   exchanges |-> latestVolume.exchanges,
   distribution |-> VolumeDistribution(latestVolume),
   lastUpdated |-> latestVolume.timestamp]

\* EXCHANGE_COLORS of the exchange history route
EXCHANGE_COLORS ==
  <<"#58a6ff", "#3fb950", "#f0883e", "#a371f7", "#f85149", "#8b949e", "#79c0ff", "#7ee787">>

\* Math.min(parseInt(...), 8)
MAX_LIMIT == 8

\* The first occurrence of each value of a sequence, in order: the keys of a
\* Map in insertion order, and [...new Set(timestamps)].
Unique(s) ==
  LET firsts == {i \in 1..Len(s) : \A j \in 1..(i - 1) : s[j] # s[i]}
      place(i) == Cardinality({j \in firsts : j <= i})
  IN  [k \in 1..Cardinality(firsts) |-> s[CHOOSE i \in firsts : place(i) = k]]

\* for (const doc of historicalVolumes) for (const exchange of
\* doc.exchanges || []): the exchanges the two loops visit, in order.
RECURSIVE Visited(_, _)
Visited(docs, n) ==
  IF n = 0 THEN <<>> ELSE Visited(docs, n - 1) \o docs[n].exchanges

\* What the repeated exchangeTotals.set(name, current + exchange.volume_usd)
\* leave under one name after the first n visited exchanges.
RECURSIVE TotalOf(_, _, _)
TotalOf(es, name, n) ==
  IF n = 0 THEN 0
  ELSE TotalOf(es, name, n - 1) + (IF es[n].name = name THEN es[n].volume_usd ELSE 0)

\* exchangeTotals after the loops: the Map as the sequence of its entries in
\* insertion order.
exchangeTotals(docs) ==
  LET es == Visited(docs, Len(docs))
      names == Unique([i \in 1..Len(es) |-> es[i].name])
  IN  [k \in 1..Len(names) |->
         [name |-> names[k], total |-> TotalOf(es, names[k], Len(es))]]

\* .sort((a, b) => b[1] - a[1]): stable, descending by total.
SortByTotal(s) ==
  LET before(i) == {j \in 1..Len(s) :
                     \/ s[j].total > s[i].total
                     \/ s[j].total = s[i].total /\ j < i}
  IN  [k \in 1..Len(s) |-> s[CHOOSE i \in 1..Len(s) : Cardinality(before(i)) = k - 1]]

\* const topExchanges = Array.from(exchangeTotals.entries()).sort(...)
\*   .slice(0, limit).map(([name]) => name)
topExchanges(docs, limit) ==
  LET top == Slice(SortByTotal(exchangeTotals(docs)), 0, limit)
  IN  [i \in 1..Len(top) |-> top[i].name]

\* A variant that repeats the volume of the first exchange of the document
\* for a name the document does not hold.
VolumeIn_noZeroFill(doc, name) ==
  LET own == {i \in 1..Len(doc.exchanges) : doc.exchanges[i].name = name}
  IN  IF own = {} THEN (IF doc.exchanges = <<>> THEN 0 ELSE doc.exchanges[1].volume_usd)
      ELSE doc.exchanges[CHOOSE i \in own : \A j \in own : j <= i].volume_usd

\* volumeMap.get(name) || 0 for one document: the volume of the last entry
\* of that name, 0 if there is none.
VolumeIn(doc, name) ==
  LET own == {i \in 1..Len(doc.exchanges) : doc.exchanges[i].name = name}
  IN  IF own = {} THEN 0
      ELSE OrZero(doc.exchanges[CHOOSE i \in own : \A j \in own : j <= i].volume_usd)

\* GET /api/volumes/history/exchanges: the data of the response.
ExchangeVolumeHistoryData(historicalVolumes, limit) ==
  LET names == topExchanges(historicalVolumes, limit)
      timestamps == [i \in 1..Len(historicalVolumes) |->
                       UnixSeconds(historicalVolumes[i].timestamp)]
  IN  [exchanges |->
         [index \in 1..Len(names) |->
            [name |-> names[index],
             color |-> IF index <= Len(EXCHANGE_COLORS)
                         THEN EXCHANGE_COLORS[index] ELSE Undefined,
             data |-> [i \in 1..Len(historicalVolumes) |->
                         [time |-> timestamps[i],
                          value |-> VolumeIn(historicalVolumes[i], names[index])]]]],
       timestamps |-> Unique(timestamps),
       lastUpdated |-> historicalVolumes[Len(historicalVolumes)].timestamp]

\* A request arrives: the URL is parsed and the range validated.
QueryRequest(op, rangeParam, limitParam) ==
  /\ query.pc = "idle"
  /\ op \notin RangeOps => rangeParam = Null
  /\ op # "getExchangeVolumeHistory" => limitParam = Null
  /\ LET range == IF op \in RangeOps THEN OrDefault(rangeParam, "24h") ELSE Null
         limit == IF op = "getExchangeVolumeHistory"
                    THEN MathMin(parseInt(OrDefault(limitParam, "5")), MAX_LIMIT)
                    ELSE Num(0)
         q == [IdleQuery EXCEPT !.op = op, !.range = range, !.limit = limit]
     IN  query' =
           IF op \in RangeOps /\ ~isValidTimeRange(range)
             THEN [q EXCEPT !.pc = "done",
                            !.response = Failure(400, "Invalid time range", now)]
             ELSE [q EXCEPT !.pc = "getCollection"]
  /\ UNCHANGED <<rateVars, cycleVars, volumeVars>>

\* The catch block of a query handler.
QueryCatch(q, message) ==
  [q EXCEPT !.pc = "done", !.response = Failure(500, message, now)]

\* A store call rejects: the catch block answers.
StoreFault(q, message) == QueryCatch([q EXCEPT !.storeFault = TRUE], message)

\* await getPricesCollection() / getVolumesCollection()
QueryGetCollection(ok) ==
  /\ query.pc = "getCollection"
  /\ LET q == [query EXCEPT !.accessed = TRUE]
     IN  query' =
           IF ~ok THEN StoreFault(q, "MongoDB connection error")
           ELSE [q EXCEPT !.pc = IF q.op = "getExchangeVolumeHistory"
                                   THEN "find" ELSE "findLatest"]
  /\ UNCHANGED <<rateVars, cycleVars, volumeVars>>

\* A variant of the test that never finds the document missing.
NoDocument_never(doc) == FALSE

\* if (!latestPrice) / if (!latestVolume)
NoDocument(doc) == doc = NoValue

\* await collection.findOne({}, { sort: { timestamp: -1 } }) and the
\* "no data" answer.
QueryFindLatest(ok, doc) ==
  /\ query.pc = "findLatest"
  /\ doc \in FindLatest(CollectionOf(query.op))
  /\ query' =
       IF ~ok THEN StoreFault(query, "MongoDB read error")
       ELSE IF NoDocument(doc)
         THEN [query EXCEPT !.pc = "done",
                 !.response = Failure(404, IF query.op = "getPrices"
                                             THEN "No price data available"
                                             ELSE "No volume data available", now)]
         ELSE [query EXCEPT !.latest = doc,
                            !.pc = IF query.op = "getVolumes" THEN "findOldest" ELSE "find"]
  /\ UNCHANGED <<rateVars, cycleVars, volumeVars>>

\* GET /api/volumes: await volumesCollection.findOne({ timestamp: { $gte:
\* twentyFourHoursAgo } }, { sort: { timestamp: 1 } }) and the response.
\* Reading a property of a null latestVolume would throw a TypeError.
QueryFindOldest(ok, doc) ==
  /\ query.pc = "findOldest"
  /\ doc \in FindOldestSince(volumesColl, now - Hours(24))
  /\ query' =
       IF ~ok THEN StoreFault(query, "MongoDB read error")
       ELSE IF query.latest = NoValue
         THEN QueryCatch(query, "Cannot read properties of null")
         ELSE [query EXCEPT !.pc = "done",
                            !.response = Success(VolumesData(query.latest, doc), now)]
  /\ UNCHANGED <<rateVars, cycleVars, volumeVars>>

\* if (!historicalVolumes || historicalVolumes.length === 0)
NoDocuments(docs) == docs = <<>>

\* await collection.find({ timestamp: { $gte: startDate } })
\* .sort({ timestamp: 1 }).toArray() and the response. Reading a property
\* of a null latestPrice or latestVolume, or of the last element of an empty
\* array, would throw a TypeError.
QueryFind(ok, docs) ==
  /\ query.pc = "find"
  /\ docs \in FindSince(CollectionOf(query.op), getTimeRangeStart(query.range, now))
  /\ query' =
       IF ~ok THEN StoreFault(query, "MongoDB read error")
       ELSE IF query.op = "getExchangeVolumeHistory"
         THEN IF NoDocuments(docs)
                THEN [query EXCEPT !.pc = "done",
                        !.response = Failure(404, "No volume history available", now)]
                ELSE [query EXCEPT !.pc = "done",
                        !.response = Success(ExchangeVolumeHistoryData(docs, query.limit), now)]
       ELSE IF query.latest = NoValue
         THEN QueryCatch(query, "Cannot read properties of null")
       ELSE IF query.op = "getPrices"
         THEN [query EXCEPT !.pc = "done",
                 !.response = Success(PricesData(query.latest, docs, query.range), now)]
         ELSE [query EXCEPT !.pc = "done",
                 !.response = Success(VolumeHistoryData(query.latest, docs, query.range), now)]
  /\ UNCHANGED <<rateVars, cycleVars, volumeVars>>

\* The store that the query handlers read.

\* Documents per collection.
MaxDocs == 2

\* What new Date() reads while the queries are served.
QueryNow == Days(40)

\* How long before QueryNow the stored snapshots were taken: the last two
\* within one second, others inside and outside the four ranges.
PriceAges == {1, 2, Hours(23), Hours(25), Days(8), Days(31)}
VolumeAges == {1, 2, Hours(25), Days(31)}

\* Price snapshots as the ingestion handler stores them.
PriceDocs ==
  {transformPriceData(PriceResponse(n, 3, 2), [market_cap_rank |-> 30], QueryNow - age) :
     n \in {5, 6}, age \in PriceAges}

\* The ticker lists behind the stored volume snapshots: no ticker, one
\* exchange without volume, and 15 and MaxBulk exchanges.
StoredTickerLists ==
  {<<>>, <<Ticker(1, 0, 0, "USDT", FALSE, FALSE, "green", Null)>>}
  \cup {Bulk(m, "descending") : m \in {15, MaxBulk}}

\* Volume snapshots as the ingestion handler stores them.
VolumeDocs ==
  {transformVolumeData([tickers |-> ts], QueryNow - age) :
     ts \in StoredTickerLists, age \in VolumeAges}

\* A collection of up to MaxDocs of the given documents, in the order of
\* their insertion, which is the order of their timestamps.
Collections(docs) ==
  {c \in UNION {[1..n -> docs] : n \in 0..MaxDocs} :
     \A i \in 1..(Len(c) - 1) : c[i].timestamp <= c[i + 1].timestamp}

-----------------------------------------------------------------------------
(* Specifications *)

ClientInit ==
  /\ callCount = 0
  /\ elapsed = 0
  /\ pc = [c \in Callers |-> "idle"]
  /\ timer = [c \in Callers |-> 0]
  /\ issuedSinceReset = 0
  /\ winAge = -1
  /\ winCount = 0

\* No handler has been invoked and the collections are empty.
CycleRest ==
  /\ now = 0
  /\ query = IdleQuery
  /\ run = [k \in Runs |-> IdleRun]
  /\ started = 0
  /\ pricesColl = <<>>
  /\ volumesColl = <<>>
  /\ metadataColl = NoValue

CycleFixed ==
  /\ CycleRest
  /\ cronSecret = [set |-> TRUE, text |-> <<"s3cret">>]
  /\ provider = [prices |-> PriceResponse(6, 3, 2),
                 coin |-> [market_cap_rank |-> 30],
                 tickers |-> [tickers |-> <<>>]]

ShuffleFixed ==
  /\ shuffled = <<>>
  /\ shuffledDoc = NoValue

VolumeFixed ==
  /\ tickers = <<>>
  /\ volumeDoc = NoValue
  /\ ShuffleFixed

ClientStep ==
  \/ \E c \in Callers : Call(c)
  \/ \E c \in Callers : WakeSaturated(c)
  \/ \E c \in Callers, o \in Outcomes : Respond(c, o)
  \/ \E c \in Callers : Wake429(c)
  \/ Advance

InitRate == ClientInit /\ observing = FALSE /\ CycleFixed /\ VolumeFixed

InitWindow == ClientInit /\ observing = TRUE /\ CycleFixed /\ VolumeFixed

NextRate == ClientStep

\* The client alone.
SpecRate == InitRate /\ [][NextRate]_vars

\* The client under an observer of rolling 60-second windows.
SpecWindow == InitWindow /\ [][NextRate]_vars

\* Timers fire, the provider (or the network layer) answers every request,
\* and time passes.
FairRate ==
  /\ WF_vars(Advance)
  /\ \A c \in Callers : WF_vars(WakeSaturated(c))
  /\ \A c \in Callers : WF_vars(Wake429(c))
  /\ \A c \in Callers : WF_vars(\E o \in Outcomes : Respond(c, o))

FairSpecRate == SpecRate /\ FairRate

\* The ingestion handler against the provider and the store.
InitCycle ==
  /\ ClientInit /\ observing = FALSE
  /\ VolumeFixed
  /\ CycleRest
  /\ \E env \in Environments :
       /\ cronSecret = env.secret
       /\ provider = [prices |-> env.prices, coin |-> env.coin, tickers |-> env.tickers]

NextCycle ==
  \/ \E k \in Runs, h \in AuthHeaders : Start(k, h)
  \/ \E k \in Runs, op, oc, ot \in {"ok", "error"} : FetchAllData(k, op, oc, ot)
  \/ \E k \in Runs, ok \in BOOLEAN : GetCollections(k, ok)
  \/ \E k \in Runs, ok \in BOOLEAN : InsertPrice(k, ok)
  \/ \E k \in Runs, ok \in BOOLEAN : InsertVolume(k, ok)
  \/ \E k \in Runs, ok \in BOOLEAN : UpdateMetadata(k, ok)
  \/ \E k \in Runs, ok \in BOOLEAN : FindMetadata(k, ok)
  \/ \E k \in Runs, ok \in BOOLEAN : ResetDaily(k, ok)
  \/ ClockTick

SpecCycle == InitCycle /\ [][NextCycle]_vars

\* transformVolumeData applied to every input of TickerLists.
InitVolume ==
  /\ ClientInit /\ observing = FALSE
  /\ CycleFixed
  /\ tickers \in TickerLists
  /\ volumeDoc = NoValue
  /\ ShuffleFixed

NextVolume == Transform

SpecVolume == InitVolume /\ [][NextVolume]_vars

\* transformVolumeData applied to a ticker list and to the same tickers in
\* another order.
InitShuffle ==
  /\ ClientInit /\ observing = FALSE
  /\ CycleFixed
  /\ tickers \in ShuffleLists
  /\ volumeDoc = NoValue
  /\ shuffled \in Rearrangements(tickers)
  /\ shuffledDoc = NoValue

NextShuffle == Transform \/ TransformShuffled

SpecShuffle == InitShuffle /\ [][NextShuffle]_vars

\* The query handlers against a store that earlier ingestion cycles have
\* filled.
InitQuery ==
  /\ ClientInit /\ observing = FALSE
  /\ VolumeFixed
  /\ cronSecret = [set |-> TRUE, text |-> <<"s3cret">>]
  /\ provider = [prices |-> PriceResponse(6, 3, 2),
                 coin |-> [market_cap_rank |-> 30],
                 tickers |-> [tickers |-> <<>>]]
  /\ run = [k \in Runs |-> IdleRun]
  /\ started = 0
  /\ metadataColl = NoValue
  /\ now = QueryNow
  /\ query = IdleQuery
  /\ \/ pricesColl \in Collections(PriceDocs) /\ volumesColl = <<>>
     \/ pricesColl = <<>> /\ volumesColl \in Collections(VolumeDocs)

NextQuery ==
  \/ \E op \in QueryOps, rangeParam \in RangeParams, limitParam \in LimitParams :
       QueryRequest(op, rangeParam, limitParam)
  \/ \E ok \in BOOLEAN : QueryGetCollection(ok)
  \/ \E ok \in BOOLEAN, doc \in FindLatest(CollectionOf(query.op)) : QueryFindLatest(ok, doc)
  \/ \E ok \in BOOLEAN, doc \in FindOldestSince(volumesColl, now - Hours(24)) :
       QueryFindOldest(ok, doc)
  \/ \E ok \in BOOLEAN,
        docs \in FindSince(CollectionOf(query.op), getTimeRangeStart(query.range, now)) :
       QueryFind(ok, docs)

SpecQuery == InitQuery /\ [][NextQuery]_vars

\* The usage record as cycles of the day before have left it.
PriorUsage ==
  [key |-> "api_usage", last_updated |-> DayStart(-1),
   api_calls_today |-> 6, api_calls_month |-> 6,
   last_reset_date |-> DayStart(-1)]

\* The Authorization header the scheduler sends.
ValidHeader == Header(<<"Bearer ", "s3cret">>)

\* Ingestion cycles over a store that is new or was last written the day
\* before. Every request is served by an invocation of its own.
InitUsage ==
  /\ ClientInit /\ observing = FALSE
  /\ VolumeFixed
  /\ cronSecret = [set |-> TRUE, text |-> <<"s3cret">>]
  /\ provider = [prices |-> PriceResponse(6, 3, 2),
                 coin |-> [market_cap_rank |-> 30],
                 tickers |-> [tickers |-> ScenarioA]]
  /\ now = 0
  /\ query = IdleQuery
  /\ run = [k \in Runs |-> IdleRun]
  /\ started = 0
  /\ \/ /\ metadataColl = NoValue
        /\ pricesColl = <<>>
        /\ volumesColl = <<>>
     \/ /\ metadataColl = PriorUsage
        /\ pricesColl = <<transformPriceData(PriceResponse(5, 3, 2),
                                             [market_cap_rank |-> 30], DayStart(-1))>>
        /\ volumesColl = <<transformVolumeData([tickers |-> ScenarioA], DayStart(-1))>>

\* No invocation is between its request and its response.
Quiet == \A k \in Runs : run[k].pc \in {"idle", "done"}

\* The requests come one after the other: each when the one before has been
\* answered.
NextSequential ==
  \/ \E k \in Runs : run[k].pc = "idle" /\ Quiet /\ Start(k, ValidHeader)
  \/ \E k \in Runs, op, oc, ot \in {"ok", "error"} : FetchAllData(k, op, oc, ot)
  \/ \E k \in Runs, ok \in BOOLEAN : GetCollections(k, ok)
  \/ \E k \in Runs, ok \in BOOLEAN : InsertPrice(k, ok)
  \/ \E k \in Runs, ok \in BOOLEAN : InsertVolume(k, ok)
  \/ \E k \in Runs, ok \in BOOLEAN : UpdateMetadata(k, ok)
  \/ \E k \in Runs, ok \in BOOLEAN : FindMetadata(k, ok)
  \/ \E k \in Runs, ok \in BOOLEAN : ResetDaily(k, ok)
  \/ ClockTick

SpecSequential == InitUsage /\ [][NextSequential]_vars

\* The requests come at any time, also while another one is being served.
NextOverlap ==
  \/ \E k \in Runs : run[k].pc = "idle" /\ Start(k, ValidHeader)
  \/ \E k \in Runs, op, oc, ot \in {"ok", "error"} : FetchAllData(k, op, oc, ot)
  \/ \E k \in Runs, ok \in BOOLEAN : GetCollections(k, ok)
  \/ \E k \in Runs, ok \in BOOLEAN : InsertPrice(k, ok)
  \/ \E k \in Runs, ok \in BOOLEAN : InsertVolume(k, ok)
  \/ \E k \in Runs, ok \in BOOLEAN : UpdateMetadata(k, ok)
  \/ \E k \in Runs, ok \in BOOLEAN : FindMetadata(k, ok)
  \/ \E k \in Runs, ok \in BOOLEAN : ResetDaily(k, ok)
  \/ ClockTick

SpecOverlap == InitUsage /\ [][NextOverlap]_vars

-----------------------------------------------------------------------------
(* Claims about the rate-limited client *)

Resting(c) == pc[c] \in {"idle", "returned", "failed"}

\* checkRateLimit() would return false now.
Saturated == ~checkRateLimit(callCount, elapsed).ok

\* C1: no more than CALLS_PER_MINUTE provider requests are issued within any
\* rolling 60-second window, whatever the interleaving of the callers.
C1_RollingCeiling == winCount <= CALLS_PER_MINUTE

\* C2: every call of fetchFromCoinGecko eventually terminates (returns a body
\* or fails), even when the provider answers 429 to every attempt.
C2_CallTerminates ==
  \A c \in Callers : (~Resting(c)) ~> Resting(c)

\* C3: a call made while the counter is saturated is suspended until the
\* window resets, the counter is then reset, and the request is eventually
\* issued.
C3_SaturatedCallServed ==
  /\ [][\A c \in Callers :
          (Resting(c) /\ ~Resting(c)' /\ Saturated) => pc'[c] = "waitSaturated"]_vars
  /\ [][\A c \in Callers :
          (pc[c] = "waitSaturated" /\ pc'[c] # "waitSaturated")
            => (callCount' = 0 /\ pc'[c] = "fetching")]_vars
  /\ \A c \in Callers : (pc[c] = "waitSaturated") ~> (pc[c] = "fetching")

\* The part of C3 that the code does guarantee: a suspended call is served.
SuspendedCallServed ==
  \A c \in Callers : (pc[c] = "waitSaturated") ~> (pc[c] = "fetching")

\* C4: every provider request increments the shared counter, so callCount
\* equals the number of requests issued since the last reset.
C4_CounterCountsRequests == issuedSinceReset = callCount


-----------------------------------------------------------------------------
(* Claims about the ingestion cycle *)

\* The provider call for endpoint e of invocation k failed.
FetchFailed(k, e) == run[k].fetched # NoValue /\ run[k].fetched[e] = "error"

FetchOk(k, e) == run[k].fetched # NoValue /\ run[k].fetched[e] = "ok"

\* C5: after any run of the handler, either both a price snapshot and a
\* volume snapshot were inserted by it, or neither was.
C5_AllOrNothing ==
  \A k \in Runs :
    run[k].pc = "done" => (("prices" \in run[k].wrote) <=> ("volumes" \in run[k].wrote))

\* C6: if the spot-price call or the tickers call fails, the cycle aborts:
\* the response is a structured failure and the invocation writes no price
\* snapshot, no volume snapshot and no metadata update.
C6_CoreFetchFailureAborts ==
  \A k \in Runs :
    (FetchFailed(k, "prices") \/ FetchFailed(k, "tickers")) =>
      /\ run[k].pc = "done"
      /\ run[k].response.status = 500
      /\ run[k].response.success = FALSE
      /\ run[k].response.error # Undefined
      /\ run[k].wrote = {}
      /\ run[k].priceResult = NoValue
      /\ run[k].volumeResult = NoValue

\* An invocation whose tickers call alone failed has been answered.
C6_Witness ==
  \E k \in Runs :
    /\ FetchOk(k, "prices") /\ FetchOk(k, "coin") /\ FetchFailed(k, "tickers")
    /\ run[k].pc = "done"

\* C7: a failure of the /coins/near call never fails the cycle: when the
\* spot-price and tickers calls succeed, the cycle goes on to store a price
\* snapshot with exactly the core fields, and a volume snapshot.
C7_EnrichmentFailureIsolated ==
  \A k \in Runs :
    (FetchOk(k, "prices") /\ FetchOk(k, "tickers") /\ FetchFailed(k, "coin")) =>
      /\ run[k].failedAt # "fetchAllData"
      /\ (run[k].pc = "done" /\ run[k].failedAt = "none") =>
            /\ {"prices", "volumes"} \subseteq run[k].wrote
            /\ DOMAIN pricesColl[run[k].priceResult.insertedId] = CoreFields

\* C8: when the USD price of bitcoin or ethereum is exactly 0 the cycle
\* fails and stores nothing, and no stored price snapshot ever has an
\* undefined or infinite near_btc or near_eth.
C8_ZeroReferenceFailsCycle ==
  /\ \A i \in 1..Len(pricesColl) :
        IsFinite(pricesColl[i].near_btc) /\ IsFinite(pricesColl[i].near_eth)
  /\ \A k \in Runs :
        ( /\ FetchOk(k, "prices") /\ FetchOk(k, "coin") /\ FetchOk(k, "tickers")
          /\ (provider.prices.bitcoin.usd = 0 \/ provider.prices.ethereum.usd = 0) ) =>
          /\ run[k].pc = "done"
          /\ run[k].response.success = FALSE
          /\ run[k].wrote = {}

\* C9: the price snapshot and the volume snapshot written by one cycle carry
\* the identical timestamp.
C9_SameTimestamp ==
  \A k \in Runs :
    (run[k].priceResult # NoValue /\ run[k].volumeResult # NoValue) =>
      pricesColl[run[k].priceResult.insertedId].timestamp
        = volumesColl[run[k].volumeResult.insertedId].timestamp

-----------------------------------------------------------------------------
(* Claims about transformVolumeData *)

\* The sum of one volume figure over the tickers that are neither stale nor
\* anomalous.
RECURSIVE ValidVolume(_, _)
ValidVolume(ts, unit) ==
  IF ts = <<>> THEN 0
  ELSE LET t == ts[Len(ts)]
           v == IF unit = "usd" THEN t.converted_volume.usd ELSE t.volume
       IN  ValidVolume(SubSeq(ts, 1, Len(ts) - 1), unit)
             + (IF t.is_anomaly \/ t.is_stale THEN 0 ELSE v)

ValidTicker(t) == ~(t.is_anomaly \/ t.is_stale)

\* The exchanges that have at least one valid ticker.
ValidNames(ts) == {ts[i].market.name : i \in {j \in 1..Len(ts) : ValidTicker(ts[j])}}

\* C11: for every ticker list the output holds at most 20 exchanges,
\* exchange_count is the number of distinct exchanges with at least one valid
\* ticker (before truncation), exchange_count >= exchanges.length, and the two
\* are equal when that number is at most 20.
C11_ExchangeCount ==
  volumeDoc # NoValue =>
    LET n == Cardinality(ValidNames(tickers))
    IN  /\ Len(volumeDoc.exchanges) <= TOP_EXCHANGES
        /\ volumeDoc.exchange_count = n
        /\ volumeDoc.exchange_count >= Len(volumeDoc.exchanges)
        /\ (n <= TOP_EXCHANGES => volumeDoc.exchange_count = Len(volumeDoc.exchanges))

\* One exchange more than is kept, with a stale ticker in the input.
C11_Witness ==
  /\ volumeDoc # NoValue
  /\ volumeDoc.exchange_count = TOP_EXCHANGES + 1
  /\ Len(volumeDoc.exchanges) = TOP_EXCHANGES
  /\ \E i \in 1..Len(tickers) : tickers[i].is_stale

\* What of a stored exchange does not depend on the order of its tickers.
OrderFree(e) ==
  [name |-> e.name, volume_usd |-> e.volume_usd, volume_near |-> e.volume_near,
   pairs |-> {e.trading_pairs[i] : i \in 1..Len(e.trading_pairs)}]

BothTransformed == volumeDoc # NoValue /\ shuffledDoc # NoValue

\* C12 as stated: for any permutation of the same ticker list
\* transformVolumeData returns the same output (the same exchanges in the same
\* order with the same volumes, trading pairs, trust indicator and trade URL,
\* the same totals and count).
C12_OrderInsensitive == BothTransformed => shuffledDoc = volumeDoc

\* C12, amended: for any permutation of the same ticker list the totals, the
\* exchange count and the sequence of volume_usd values of the stored list are
\* the same; when no more than 20 exchanges have a valid ticker the stored
\* exchanges are the same, each with the same volume_usd, volume_near and the
\* same set of trading pairs. The order of exchanges of equal volume, which of
\* them survive the truncation, the order of trading_pairs, trust_score and
\* trade_url follow the input order.
C12_OrderInsensitiveVolumes ==
  BothTransformed =>
    /\ shuffledDoc.total_volume_usd = volumeDoc.total_volume_usd
    /\ shuffledDoc.total_volume_near = volumeDoc.total_volume_near
    /\ shuffledDoc.exchange_count = volumeDoc.exchange_count
    /\ Len(shuffledDoc.exchanges) = Len(volumeDoc.exchanges)
    /\ \A i \in 1..Len(volumeDoc.exchanges) :
         shuffledDoc.exchanges[i].volume_usd = volumeDoc.exchanges[i].volume_usd
    /\ (volumeDoc.exchange_count <= TOP_EXCHANGES =>
          {OrderFree(shuffledDoc.exchanges[i]) : i \in 1..Len(shuffledDoc.exchanges)}
            = {OrderFree(volumeDoc.exchanges[i]) : i \in 1..Len(volumeDoc.exchanges)})

\* Two orders of the same tickers gave different documents.
C12_Witness ==
  /\ BothTransformed
  /\ shuffled # tickers
  /\ shuffledDoc # volumeDoc

\* The sum of one volume figure over the valid tickers of one exchange among
\* the first n tickers.
RECURSIVE NameVolumeUpTo(_, _, _, _)
NameVolumeUpTo(ts, n, name, unit) ==
  IF n = 0 THEN 0
  ELSE NameVolumeUpTo(ts, n - 1, name, unit)
         + (IF ts[n].market.name = name /\ ValidTicker(ts[n])
              THEN (IF unit = "usd" THEN ts[n].converted_volume.usd ELSE ts[n].volume)
              ELSE 0)

NameVolume(ts, name, unit) == NameVolumeUpTo(ts, Len(ts), name, unit)

\* The tickers of one exchange.
TickersOf(ts, name) == {i \in 1..Len(ts) : ts[i].market.name = name}

\* C13: for each exchange of the output, volume_usd is the sum of
\* converted_volume.usd and volume_near the sum of volume over exactly that
\* exchange's tickers that are neither stale nor anomalous; flagged tickers
\* contribute nothing.
C13_ExchangeVolumes ==
  volumeDoc # NoValue =>
    \A i \in 1..Len(volumeDoc.exchanges) :
      LET e == volumeDoc.exchanges[i]
      IN  /\ e.volume_usd = NameVolume(tickers, e.name, "usd")
          /\ e.volume_near = NameVolume(tickers, e.name, "near")

\* A stored exchange with two valid tickers and a flagged one.
C13_Witness ==
  /\ volumeDoc # NoValue
  /\ \E i \in 1..Len(volumeDoc.exchanges) :
       LET own == TickersOf(tickers, volumeDoc.exchanges[i].name)
       IN  /\ Cardinality({j \in own : ValidTicker(tickers[j])}) >= 2
           /\ \E j \in own : ~ValidTicker(tickers[j])

\* C14: the exchange buckets are exactly the exchange names that have at
\* least one ticker that is neither stale nor anomalous, each name once; an
\* exchange whose tickers are all flagged does not appear, not even as a
\* zero-volume entry.
C14_BucketsAreValidExchanges ==
  volumeDoc # NoValue =>
    LET names == {volumeDoc.exchanges[i].name : i \in 1..Len(volumeDoc.exchanges)}
        valid == ValidNames(tickers)
    IN  /\ Cardinality(names) = Len(volumeDoc.exchanges)
        /\ names \subseteq valid
        /\ volumeDoc.exchange_count = Cardinality(valid)
        /\ (volumeDoc.exchange_count <= TOP_EXCHANGES => names = valid)

\* An exchange all of whose tickers are flagged, next to one with a valid and
\* a flagged ticker.
C14_Witness ==
  /\ volumeDoc # NoValue
  /\ \E i \in 1..Len(tickers) :
       /\ TickersOf(tickers, tickers[i].market.name) # {}
       /\ \A j \in TickersOf(tickers, tickers[i].market.name) : ~ValidTicker(tickers[j])
  /\ \E i, j \in 1..Len(tickers) :
       /\ tickers[i].market.name = tickers[j].market.name
       /\ ValidTicker(tickers[i]) /\ ~ValidTicker(tickers[j])

-----------------------------------------------------------------------------
(* Claims about the store and the query handlers *)

\* Every document of a is still in b, at its place and as it was.
IsPrefix(a, b) == Len(a) <= Len(b) /\ \A i \in 1..Len(a) : a[i] = b[i]

\* Invocation k has just written its snapshot into the named collection.
JustWrote(k, name) == name \in run'[k].wrote /\ name \notin run[k].wrote

\* C15: stored snapshots are append-only. Every write of a price or volume
\* snapshot adds a new record, and no step of the system modifies, overwrites
\* or removes an already-stored price or volume snapshot, even when the new
\* snapshot has the timestamp of a stored one.
C15_AppendOnly ==
  [][/\ IsPrefix(pricesColl, pricesColl')
     /\ IsPrefix(volumesColl, volumesColl')
     /\ \A k \in Runs :
          /\ JustWrote(k, "prices") => Len(pricesColl') = Len(pricesColl) + 1
          /\ JustWrote(k, "volumes") => Len(volumesColl') = Len(volumesColl) + 1]_vars

\* Two price snapshots and two volume snapshots of the same timestamp are
\* stored side by side.
C15_Witness ==
  /\ Len(pricesColl) >= 2
  /\ pricesColl[1].timestamp = pricesColl[2].timestamp
  /\ Len(volumesColl) >= 2
  /\ volumesColl[1].timestamp = volumesColl[2].timestamp

\* The answer of a finished query, and whether it was given at all.
Answered == query.pc = "done" /\ query.response # NoValue
Status == query.response.status

\* A request of a handler that takes a range, with the given text as its
\* range parameter.
RangeRequest(rangeParam) ==
  \E op \in RangeOps, limitParam \in LimitParams : QueryRequest(op, rangeParam, limitParam)

\* The request is answered at once with 400 and the store is left alone.
RejectedUnread ==
  /\ query'.pc = "done"
  /\ query'.response.status = 400 /\ query'.response.success = FALSE
  /\ ~query'.accessed

\* C16 as stated: a request of getPrices, getVolumeHistory or
\* getExchangeVolumeHistory whose range parameter is not one of 1h, 24h, 7d
\* and 30d is answered with status 400 and never reaches the store.
C16_InvalidRangeRejected ==
  [][\A rangeParam \in RangeParams \ {Null} :
       (RangeRequest(rangeParam) /\ rangeParam \notin {"1h", "24h", "7d", "30d"})
         => RejectedUnread]_vars

\* C16, amended: a request of getPrices, getVolumeHistory or
\* getExchangeVolumeHistory whose range parameter is not empty and not one of
\* 1h, 24h, 7d and 30d is answered with status 400, and a request answered
\* with 400 has not reached the store and takes no further step; an absent
\* or empty range parameter is read as 24h.
C16_NonEmptyInvalidRangeRejected ==
  /\ [][\A rangeParam \in RangeParams \ {Null, ""} :
          (RangeRequest(rangeParam) /\ rangeParam \notin {"1h", "24h", "7d", "30d"})
            => RejectedUnread]_vars
  /\ [][\A rangeParam \in {Null, ""} :
          RangeRequest(rangeParam) => query'.range = "24h" /\ query'.pc = "getCollection"]_vars
  /\ [][(Answered /\ Status = 400) => query' = query]_vars
  /\ []((Answered /\ Status = 400) => ~query.accessed)

\* The exchange history handler has rejected a range while the store holds
\* documents it could have read.
C16_Witness ==
  /\ Answered /\ Status = 400
  /\ query.op = "getExchangeVolumeHistory"
  /\ query.range = "1d"
  /\ volumesColl # <<>>

\* C17: a request of getPrices, getVolumes, getVolumeHistory or
\* getExchangeVolumeHistory that passes the range validation and whose store
\* calls are all answered, made while the collection it reads is empty, ends
\* with success false, status 404 and a "no ... available" message, not with
\* the catch block's 500.
C17_EmptyCollectionIsNoData ==
  (/\ Answered
   /\ ~query.storeFault
   /\ Status # 400
   /\ CollectionOf(query.op) = <<>>)
    => /\ Status = 404
       /\ query.response.success = FALSE
       /\ query.response.error \in {"No price data available",
                                    "No volume data available",
                                    "No volume history available"}

\* getVolumes has answered over an empty volumes collection after both of its
\* store calls were answered.
C17_Witness ==
  /\ Answered
  /\ query.op = "getVolumes"
  /\ query.accessed /\ ~query.storeFault
  /\ volumesColl = <<>>
  /\ Status = 404

\* getPrices has answered with data.
PricesAnswered ==
  Answered /\ query.op = "getPrices" /\ query.response.success

\* C18: the historical series of a getPrices answer is non-decreasing in its
\* time key, and under the ranges 1h and 24h, whose keys are Unix seconds,
\* strictly increasing: no two points share a key.
C18_HistoricalSeriesIncreasing ==
  PricesAnswered =>
    LET historical == query.response.data.historical
    IN  \A i \in 1..(Len(historical) - 1) :
          /\ historical[i].time <= historical[i + 1].time
          /\ query.range \in {"1h", "24h"} => historical[i].time < historical[i + 1].time

\* getVolumes has answered with data.
VolumesAnswered ==
  Answered /\ query.op = "getVolumes" /\ query.response.success

\* a + b of two fractions.
FractionSum(a, b) == Ratio(a.num * b.den + b.num * a.den, a.den * b.den)

\* The sum of the percentages of the first n buckets.
RECURSIVE PercentageSum(_, _)
PercentageSum(distribution, n) ==
  IF n = 0 THEN Ratio(0, 1)
  ELSE FractionSum(PercentageSum(distribution, n - 1), distribution[n].percentage)

\* |f - 100| <= 0.01
WithinHundredthOf100(f) == Abs(f.num - 100 * f.den) * 100 <= f.den

\* C19: the percentages of the distribution of a getVolumes answer, the
\* "Others" bucket included, sum to 100 within 0.01 whenever the exchange list
\* of the snapshot is not empty.
C19_PercentagesSumTo100 ==
  (VolumesAnswered /\ query.response.data.exchanges # <<>>) =>
    LET distribution == query.response.data.distribution
    IN  WithinHundredthOf100(PercentageSum(distribution, Len(distribution)))

\* The sum of volume_usd of the exchanges from..to of a list.
RECURSIVE VolumeOfRange(_, _, _)
VolumeOfRange(exchanges, from, to) ==
  IF from > to THEN 0
  ELSE exchanges[to].volume_usd + VolumeOfRange(exchanges, from, to - 1)

\* C20: the distribution of a getVolumes answer holds the first 10 exchanges
\* of the latest volume snapshot in their order, each with its volume_usd; if
\* and only if the snapshot holds more than 10 exchanges one further bucket
\* named "Others" follows as the last one, its value the sum of volume_usd of
\* the exchanges after the 10th.
C20_DistributionBuckets ==
  VolumesAnswered =>
    LET exchanges == query.response.data.exchanges
        distribution == query.response.data.distribution
        shown == IF Len(exchanges) < 10 THEN Len(exchanges) ELSE 10
        others == {i \in 1..Len(distribution) : distribution[i].name = OthersName}
    IN  /\ \E latest \in FindLatest(volumesColl) : exchanges = latest.exchanges
        /\ \A i \in 1..shown :
             /\ distribution[i].name = exchanges[i].name
             /\ distribution[i].value = exchanges[i].volume_usd
        /\ IF Len(exchanges) > 10
             THEN /\ Len(distribution) = 11
                  /\ others = {11}
                  /\ distribution[11].value = VolumeOfRange(exchanges, 11, Len(exchanges))
             ELSE /\ Len(distribution) = Len(exchanges)
                  /\ others = {}

\* getVolumes has answered over a snapshot of 15 exchanges with 11 buckets,
\* the last of them "Others".
C20_Witness ==
  /\ VolumesAnswered
  /\ Len(query.response.data.exchanges) = 15
  /\ Len(query.response.data.distribution) = 11
  /\ query.response.data.distribution[11].name = OthersName
  /\ query.response.data.distribution[11].value > 0

\* The change reported by getVolumes is the given one of latest and earliest:
\* change = (latest - earliest) / earliest * 100, as change * earliest =
\* (latest - earliest) * 100.
IsPercentChange(change, latest, earliest) ==
  change.num * earliest.total_volume_usd
    = (latest.total_volume_usd - earliest.total_volume_usd) * 100 * change.den

\* C21 as stated: the percent change of a getVolumes answer equals
\* (latest.total_volume_usd - earliest.total_volume_usd) /
\* earliest.total_volume_usd * 100, earliest being the oldest volume snapshot
\* at or after now minus 24h, and 0 when no snapshot falls in that window.
C21_PercentChange ==
  VolumesAnswered =>
    \E latest \in FindLatest(volumesColl),
       earliest \in FindOldestSince(volumesColl, now - Hours(24)) :
      LET change == query.response.data.volume_change_24h
      IN  /\ query.response.data.total_volume_usd = latest.total_volume_usd
          /\ IF earliest = NoValue THEN change = Ratio(0, 1)
             ELSE IsPercentChange(change, latest, earliest)

\* C21, amended: as above when the earliest snapshot of the window has a
\* total_volume_usd other than 0; the change is 0 when no snapshot falls in
\* the window and also when the earliest one has a total_volume_usd of 0.
C21_PercentChangeOfNonZero ==
  VolumesAnswered =>
    \E latest \in FindLatest(volumesColl),
       earliest \in FindOldestSince(volumesColl, now - Hours(24)) :
      LET change == query.response.data.volume_change_24h
      IN  /\ query.response.data.total_volume_usd = latest.total_volume_usd
          /\ IF earliest = NoValue \/ earliest.total_volume_usd = 0
               THEN change = Ratio(0, 1)
               ELSE IsPercentChange(change, latest, earliest)

\* getVolumes has reported a change other than 0 between two snapshots of the
\* last 24 hours.
C21_Witness ==
  /\ VolumesAnswered
  /\ Len(volumesColl) = 2
  /\ volumesColl[1].timestamp >= now - Hours(24)
  /\ volumesColl[1].total_volume_usd # 0
  /\ query.response.data.volume_change_24h.num # 0

\* getExchangeVolumeHistory has answered with data.
ExchangeHistoryAnswered ==
  Answered /\ query.op = "getExchangeVolumeHistory" /\ query.response.success

\* The volume snapshots of the window of the request, in stored order.
WindowDocs ==
  SelectSeq(volumesColl, LAMBDA doc : doc.timestamp >= getTimeRangeStart(query.range, now))

\* The volume_usd of one exchange summed over the first n snapshots of the
\* window.
RECURSIVE WindowTotal(_, _)
WindowTotal(name, n) ==
  IF n = 0 THEN 0 ELSE WindowTotal(name, n - 1) + VolumeIn(WindowDocs[n], name)

\* The exchanges that occur in the window.
WindowNames ==
  UNION {{doc.exchanges[i].name : i \in 1..Len(doc.exchanges)} :
           doc \in {WindowDocs[n] : n \in 1..Len(WindowDocs)}}

\* C22: whatever the limit parameter, getExchangeVolumeHistory returns at
\* most 8 series, and for a limit K (5 if absent, at most 8) the series are
\* those of the K exchanges with the largest volume_usd summed over the
\* snapshots of the window, in descending order of that sum.
C22_AtMostEightLargest ==
  ExchangeHistoryAnswered =>
    LET series == query.response.data.exchanges
        selected == {series[i].name : i \in 1..Len(series)}
        total(name) == WindowTotal(name, Len(WindowDocs))
    IN  /\ Len(series) <= 8
        /\ ~query.limit.nan =>
             /\ Len(series) = Min(query.limit.value, Cardinality(WindowNames))
             /\ Cardinality(selected) = Len(series)
             /\ selected \subseteq WindowNames
             /\ \A i \in 1..(Len(series) - 1) :
                  total(series[i].name) >= total(series[i + 1].name)
             /\ \A in \in selected, out \in WindowNames \ selected :
                  total(in) >= total(out)

\* C23: in a getExchangeVolumeHistory answer every series has exactly one
\* point per volume snapshot of the window, so all series are equally long,
\* and the value of a point is 0 whenever the exchange is absent from the
\* stored exchanges of that snapshot.
C23_ZeroFilledSeries ==
  ExchangeHistoryAnswered =>
    LET series == query.response.data.exchanges
    IN  \E docs \in FindSince(volumesColl, getTimeRangeStart(query.range, now)) :
          \A k \in 1..Len(series) :
            /\ Len(series[k].data) = Len(docs)
            /\ \A i \in 1..Len(docs) :
                 LET present == \E j \in 1..Len(docs[i].exchanges) :
                                  docs[i].exchanges[j].name = series[k].name
                 IN  /\ ~present => series[k].data[i].value = 0
                     /\ present =>
                          \E j \in 1..Len(docs[i].exchanges) :
                            /\ docs[i].exchanges[j].name = series[k].name
                            /\ series[k].data[i].value = docs[i].exchanges[j].volume_usd

\* An answer with a series whose exchange is missing from one of two
\* snapshots of the window: that point is 0, the other is not.
C23_Witness ==
  /\ ExchangeHistoryAnswered
  /\ Len(WindowDocs) = 2
  /\ \E k \in 1..Len(query.response.data.exchanges) :
       LET data == query.response.data.exchanges[k].data
           name == query.response.data.exchanges[k].name
       IN  /\ Len(data) = 2
           /\ \A j \in 1..Len(WindowDocs[1].exchanges) : WindowDocs[1].exchanges[j].name # name
           /\ data[1].value = 0
           /\ data[2].value > 0

\* C30: in a getExchangeVolumeHistory answer the timestamps list is aligned
\* with every series: each series is as long as timestamps and its i-th point
\* has the time timestamps[i].
C30_TimestampsAligned ==
  ExchangeHistoryAnswered =>
    LET series == query.response.data.exchanges
        timestamps == query.response.data.timestamps
    IN  \A k \in 1..Len(series) :
          /\ Len(series[k].data) = Len(timestamps)
          /\ \A i \in 1..Len(timestamps) : series[k].data[i].time = timestamps[i]

-----------------------------------------------------------------------------
(* Further claims about transformVolumeData *)

\* The place of the first valid ticker of an exchange in the input.
FirstValid(ts, name) ==
  CHOOSE i \in TickersOf(ts, name) :
    /\ ValidTicker(ts[i])
    /\ \A j \in TickersOf(ts, name) : ValidTicker(ts[j]) => i <= j

\* C26: the exchanges list of transformVolumeData is sorted by volume_usd
\* descending, and exchanges of equal volume_usd stand in the order in which
\* their first valid tickers occur in the input. Stated for neighbours, from
\* which it follows for every pair.
C26_SortedStable ==
  volumeDoc # NoValue =>
    \A i \in 1..(Len(volumeDoc.exchanges) - 1) :
      /\ volumeDoc.exchanges[i].volume_usd >= volumeDoc.exchanges[i + 1].volume_usd
      /\ volumeDoc.exchanges[i].volume_usd = volumeDoc.exchanges[i + 1].volume_usd
           => FirstValid(tickers, volumeDoc.exchanges[i].name)
                < FirstValid(tickers, volumeDoc.exchanges[i + 1].name)

\* The output holds exchanges of equal volume and exchanges of different
\* volume, the larger one met later in the input.
C26_Witness ==
  /\ volumeDoc # NoValue
  /\ \E i, j \in 1..Len(volumeDoc.exchanges) :
       /\ i < j
       /\ volumeDoc.exchanges[i].volume_usd = volumeDoc.exchanges[j].volume_usd
  /\ \E i, j \in 1..Len(volumeDoc.exchanges) :
       /\ i < j
       /\ volumeDoc.exchanges[i].volume_usd > volumeDoc.exchanges[j].volume_usd
       /\ FirstValid(tickers, volumeDoc.exchanges[i].name)
            > FirstValid(tickers, volumeDoc.exchanges[j].name)

\* C27: for each exchange of the output, trust_score and trade_url are those
\* of the first valid ticker of that exchange in input order (trade_url absent
\* when that ticker has none, null or empty); later tickers of the exchange
\* do not change them.
C27_FirstSeenTrust ==
  volumeDoc # NoValue =>
    \A i \in 1..Len(volumeDoc.exchanges) :
      LET first == tickers[FirstValid(tickers, volumeDoc.exchanges[i].name)]
      IN  /\ volumeDoc.exchanges[i].trust_score = first.trust_score
          /\ volumeDoc.exchanges[i].trade_url =
               IF first.trade_url \in {Null, ""} THEN Undefined ELSE first.trade_url

\* An exchange of the output has a later valid ticker with another
\* trust_score and trade_url than its first one.
C27_Witness ==
  /\ volumeDoc # NoValue
  /\ \E i \in 1..Len(volumeDoc.exchanges) :
       \E k \in TickersOf(tickers, volumeDoc.exchanges[i].name) :
         /\ ValidTicker(tickers[k])
         /\ k > FirstValid(tickers, volumeDoc.exchanges[i].name)
         /\ tickers[k].trust_score # volumeDoc.exchanges[i].trust_score
         /\ tickers[k].trade_url # tickers[FirstValid(tickers, volumeDoc.exchanges[i].name)].trade_url

-----------------------------------------------------------------------------
(* Further claims about the cron ingestion handler *)

\* The header carries the configured secret, bare or after "Bearer ".
CarriesSecret(authHeader) ==
  /\ ~authHeader.null
  /\ cronSecret.set
  /\ authHeader.text \in {cronSecret.text, <<"Bearer ">> \o cronSecret.text}

\* The request of invocation k was answered 401.
Unauthorized(k) ==
  run[k].response # NoValue /\ run[k].response.status = 401

C28_StoredCounts ==
  \A k \in Runs :
    (run[k].pc = "done" /\ run[k].response # NoValue /\ ~Unauthorized(k)) =>
      /\ run[k].response.pricesStored = (IF "prices" \in run[k].wrote THEN 1 ELSE 0)
      /\ run[k].response.volumesStored = (IF "volumes" \in run[k].wrote THEN 1 ELSE 0)

\* Invocation k has answered 200.
Succeeded(k) ==
  run[k].pc = "done" /\ run[k].response # NoValue /\ run[k].response.status = 200

\* Every cycle so far has succeeded, and at least one has.
AllSucceeded ==
  /\ Quiet
  /\ \A k \in Runs : run[k].pc = "idle" \/ Succeeded(k)
  /\ \E k \in Runs : Succeeded(k)

\* The latest UTC day that a successful cycle has read for its usage update.
LatestDay ==
  CHOOSE d \in {run[k].today : k \in {j \in Runs : Succeeded(j)}} :
    \A k \in Runs : Succeeded(k) => run[k].today <= d

\* The successful cycles of a day.
CyclesOf(day) == {k \in Runs : Succeeded(k) /\ run[k].today = day}

\* C24: when successful cycles follow one another, after each of them the
\* usage record has last_reset_date equal to the UTC day of that cycle and
\* api_calls_today equal to 3 times the number of successful cycles of that
\* day: the counter restarts with the first cycle of a new day.
C24_DailyCounter ==
  AllSucceeded =>
    /\ metadataColl # NoValue
    /\ metadataColl.last_reset_date = DayStart(LatestDay)
    /\ metadataColl.api_calls_today = 3 * Cardinality(CyclesOf(LatestDay))

\* Two cycles have succeeded on different days and the counter has restarted.
C24_Witness ==
  /\ AllSucceeded
  /\ \A k \in Runs : Succeeded(k)
  /\ Cardinality(CyclesOf(LatestDay)) = 1
  /\ metadataColl.api_calls_today = 3

\* C29: however two or more cycles interleave, no usage update is lost: once
\* all of them have finished (here: every one successfully), api_calls_today
\* is 3 times the number of cycles of the current day and api_calls_month has
\* grown by 3 per cycle.
C29_NoLostUpdate ==
  (Quiet /\ \A k \in Runs : Succeeded(k)) =>
    /\ metadataColl # NoValue
    /\ metadataColl.api_calls_today = 3 * Cardinality(CyclesOf(LatestDay))
    /\ metadataColl.api_calls_month \in
         {3 * Cardinality(Runs), PriorUsage.api_calls_month + 3 * Cardinality(Runs)}

=============================================================================
